---- MODULE Spec2Model ----
(***************************************************************************)
(* A model of the options trading engine: the transactional portfolio      *)
(* ledger (portfolio_manager.py), the cycle loop and the two strategies    *)
(* (engine.py), and the pricing function (pricing_model.py).               *)
(*                                                                         *)
(* Conventions.  Prices are integers; Holding.average_price, which the     *)
(* code computes by a float division, is kept as an exact reduced          *)
(* fraction [num, den].  Column defaults that are timestamps or row ids    *)
(* (id, timestamp, last_updated) are not modelled: a trade_history row is  *)
(* identified by its position in the sequence.  An instrument symbol such  *)
(* as NIFTY28AUG2555000CE is the tuple <<underlying, strike, suffix>>: its *)
(* last element stands for the last two characters of the string.          *)
(***************************************************************************)
EXTENDS Integers, Sequences, FiniteSets, TLC

\* ------------------------------------------------------------------ bounds
\* direct record_trade calls made by the ledger's caller in one behaviour
MaxCalls == 2
\* trading cycles the engine's loop starts in one behaviour
MaxCycles == 3
\* the clock runs over the dates 0..MaxDay
MaxDay == 1

\* ------------------------------------------------------------ configuration
\* config.ini as read by TradingEngine.__init__
symbols_to_watch == <<"NIFTY", "CRUDEOIL">>
symbol_details == {"NIFTY", "BANKNIFTY", "FINNIFTY", "SENSEX", "MIDCPNIFTY"}
trade_trigger_percentage == 15
risk_free_rate == 7          \* percent
trade_quantity == 5
max_iv_rank == 20
expiry_weekday == 3          \* 3 = Thursday
\* a day is cut into two slots; STRATEGY_START_TIME opens slot 1
strategy_start_time == 1
TimesOfDay == 0..1
\* the dates on which the process is started: a Wednesday and a Saturday
StartDates == {0, 3}

\* --------------------------------------------------------- input alphabets
UnderlyingNames == {"NIFTY", "BANKNIFTY"}
OptionTypes == {"CE", "PE"}
Strikes == {100, 200}
AllSymbols == {<<u, k, t>> : u \in UnderlyingNames, k \in Strikes, t \in OptionTypes}
\* what a direct caller of record_trade passes
CallSymbols == {<<"NIFTY", 100, "CE">>, <<"NIFTY", 100, "PE">>}
CallSides == {"BUY", "SELL", "buy", "HOLD"}
CallQuantities == {0, 5, 10}
CallPrices == {100, 130}
\* where a storage error (an exception out of the session) strikes in a call
Faults == {"none", "flush", "commit"}

\* what the market data gateway can return in one cycle
IVs == {10, 11, 12, 20}
LTPs == {100, 190}
SnapshotShapes == {"full", "bad_put", "no_put", "no_iv", "empty"}
\* what the pricing formula can evaluate to for inputs it accepts
FairValues == {0, 115, 120}
\* a volatility too large to be squared in a float
HugeSigma == 1000000
\* what a direct caller of black_scholes and of analyze_and_trade_value passes
PricedTypes == {"CE", "PE", "XX"}
PricedNumbers == {-1, 0, 100}
PricedRates == {-1, 7}
PricedSigmas == {-1, 0, 20, HugeSigma}
PricedDaysToExpiry == {-1, 0, 1}
PricedValues == {120}
AnalyzedSuffixes == {"CE", "XX"}
AnalyzedMarketPrices == {0, 100}
AnalyzedIVs == {0, 20, HugeSigma}
AnalyzedDaysToExpiry == {-1, 1}
AnalyzedLTPs == {-1, 100}
AnalyzedValues == {0, 110, 115, 120}
\* storage errors inside the engine's own record_trade calls
EngineFaults == {"none", "commit"}

VARIABLES
    holdings,   \* the committed holdings table: symbol -> [quantity, average_price]
    history,    \* the committed trade_history table, oldest row first
    calls,      \* number of direct record_trade calls so far
    last,       \* the most recent operation: what was asked and how it ended
    pc,         \* where TradingEngine.run stands
    idx,        \* position of the for loop in symbols_to_watch
    cycles,     \* number of cycles started
    now,        \* the wall clock: [date, tod]
    expiry_strategy_enabled,    \* config: EXPIRY_STRATEGY.ENABLED
    session_iv_tracker,         \* index_name -> [high, low]
    expiry_trade_fired_today,   \* index_name -> date of the last straddle
    df_merged,                  \* process_index's merged snapshot (a sequence of rows)
    underlying_ltp,             \* process_index's LTP of the index
    atm_i,                      \* the row of df_merged that argsort()[:1] selects (0: none)
    opt_i,                      \* position of the value strategy's loop in df_merged
    straddle_executions,        \* history variable: <<index_name, date>> of every straddle executed
    straddle_declined,          \* history variable: <<index_name, date>> of every call that found the rank too high
    iv_observed                 \* history variable: index_name -> [date, high, low] of the IVs
                                \* update_session_iv observed on the latest date it observed any

ledger_vars == <<holdings, history>>
engine_vars == <<pc, idx, cycles, now, expiry_strategy_enabled, session_iv_tracker,
                 expiry_trade_fired_today, df_merged, underlying_ltp, atm_i, opt_i, straddle_executions,
                 straddle_declined, iv_observed>>
vars == <<holdings, history, calls, last, pc, idx, cycles, now, expiry_strategy_enabled,
          session_iv_tracker, expiry_trade_fired_today, df_merged, underlying_ltp, atm_i, opt_i,
          straddle_executions, straddle_declined, iv_observed>>

\* ----------------------------------------------------------- arithmetic
Abs(x) == IF x < 0 THEN -x ELSE x

RECURSIVE GCD(_, _)
GCD(a, b) == IF b = 0 THEN a ELSE GCD(b, a % b)

\* the fraction n/d (d # 0) in lowest terms with a positive denominator
Rat(n, d) ==
    LET g == GCD(Abs(n), Abs(d))
        s == IF d < 0 THEN -1 ELSE 1
    IN  [num |-> (s * n) \div g, den |-> (s * d) \div g]

RatOfInt(p) == [num |-> p, den |-> 1]

\* str.upper() on the side strings a caller passes
Upper(s) ==
    CASE s = "buy" -> "BUY"
      [] s = "sell" -> "SELL"
      [] s = "hold" -> "HOLD"
      [] OTHER -> s

\* ------------------------------------------------------------- the ledger
NoReason == [kind |-> "", a |-> 0, b |-> 0]

\* TradeHistory(symbol=..., trade_type=trade_type.upper(), ...)
TradeHistory(symbol, trade_type, quantity, price, reason) ==
    [symbol |-> symbol, trade_type |-> Upper(trade_type), quantity |-> quantity,
     price |-> price, reason |-> reason]

\* a mutant of session_add: the new row is stored first instead of last
session_add_prepend(hist, row) == <<row>> \o hist

\* session.add(new_trade): the row joins the pending transaction
session_add(hist, row) == Append(hist, row)

\* a mutant of WeightedAverage: the plain mean of the two prices
WeightedAverage_mean(oldAvg, oldQty, price, quantity) ==
    Rat(oldAvg.num + price * oldAvg.den, 2 * oldAvg.den)

\* (holding.average_price * holding.quantity + price * quantity) / new_quantity
WeightedAverage(oldAvg, oldQty, price, quantity) ==
    Rat(oldAvg.num * oldQty + price * quantity * oldAvg.den,
        oldAvg.den * (oldQty + quantity))

\* the BUY branch on an existing holding
BuyExisting(h, quantity, price) ==
    [quantity |-> h.quantity + quantity,
     average_price |-> WeightedAverage(h.average_price, h.quantity, price, quantity)]

\* Holding(symbol=symbol, quantity=quantity, average_price=price)
Holding(quantity, price) ==
    [quantity |-> quantity, average_price |-> RatOfInt(price)]

\* a mutant of SellRejected: only the missing holding is rejected
SellRejected_no_quantity_check(hs, symbol, quantity) == symbol \notin DOMAIN hs

\* not holding or holding.quantity < quantity
SellRejected(hs, symbol, quantity) ==
    symbol \notin DOMAIN hs \/ hs[symbol].quantity < quantity

\* a mutant of SellExisting: the quantity is assigned instead of subtracted
SellExisting_assign(h, quantity) == [h EXCEPT !.quantity = quantity]

\* holding.quantity -= quantity
SellExisting(h, quantity) == [h EXCEPT !.quantity = @ - quantity]

PutRow(hs, symbol, h) ==
    [s \in DOMAIN hs \cup {symbol} |-> IF s = symbol THEN h ELSE hs[s]]

DeleteRow(hs, symbol) == [s \in DOMAIN hs \ {symbol} |-> hs[s]]

Ledger(hs, hist, outcome) == [holdings |-> hs, history |-> hist, outcome |-> outcome]

\* session.commit(): the pending rows become the committed tables, unless the
\* store raises, and then the except clause rolls the transaction back
Commit(led, hs, hist, fault) ==
    IF fault = "commit" THEN Ledger(led.holdings, led.history, "error")
    ELSE Ledger(hs, hist, "committed")

\* PortfolioManager.record_trade: the committed tables after the call
record_trade(led, symbol, trade_type, quantity, price, reason, fault) ==
    LET side == Upper(trade_type)
        hist1 == session_add(led.history, TradeHistory(symbol, trade_type, quantity, price, reason))
        hs == led.holdings
    IN  IF fault = "flush"
        THEN Ledger(led.holdings, led.history, "error")
        ELSE IF side = "BUY"
        THEN IF symbol \in DOMAIN hs
             THEN IF hs[symbol].quantity + quantity = 0
                  THEN Ledger(led.holdings, led.history, "error")   \* ZeroDivisionError
                  ELSE Commit(led, PutRow(hs, symbol, BuyExisting(hs[symbol], quantity, price)), hist1, fault)
             ELSE Commit(led, PutRow(hs, symbol, Holding(quantity, price)), hist1, fault)
        ELSE IF side = "SELL"
        THEN IF SellRejected(hs, symbol, quantity)
             THEN Ledger(led.holdings, led.history, "rejected")     \* session.rollback(); return
             ELSE LET h == SellExisting(hs[symbol], quantity)
                  IN  IF h.quantity = 0
                      THEN Commit(led, DeleteRow(hs, symbol), hist1, fault)
                      ELSE Commit(led, PutRow(hs, symbol, h), hist1, fault)
        ELSE Commit(led, hs, hist1, fault)

\* where in a record_trade call a KeyboardInterrupt arrives: after
\* session.add(new_trade), after the holdings have been changed in the session,
\* or after session.commit() has returned
InterruptPoints == {"added", "updated", "committed"}

\* a mutant of session_close: closing the session writes what is pending
session_close_flushes(stored, pending) == pending

\* finally: session.close() while a transaction is in progress: the
\* transaction is rolled back and the tables stay as stored
session_close(stored, pending) == stored

\* record_trade left through a KeyboardInterrupt, which `except Exception` does
\* not catch: the tables in the database file after the finally clause
record_trade_interrupted(led, symbol, trade_type, quantity, price, reason, at) ==
    LET hist1 == session_add(led.history, TradeHistory(symbol, trade_type, quantity, price, reason))
        done == record_trade(led, symbol, trade_type, quantity, price, reason, "none")
        r == IF done.outcome # "committed" THEN led
             ELSE IF at = "added" THEN session_close(led, Ledger(led.holdings, hist1, ""))
             ELSE IF at = "updated" THEN session_close(led, done)
             ELSE done
    IN  Ledger(r.holdings, r.history, "interrupted")

\* session.query(Holding).all()
get_all_holdings(hs) == {[symbol |-> s, quantity |-> hs[s].quantity,
                          average_price |-> hs[s].average_price] : s \in DOMAIN hs}

\* session.query(TradeHistory).order_by(TradeHistory.timestamp.desc()).all()
get_trade_history(hist) == [i \in 1..Len(hist) |-> hist[Len(hist) + 1 - i]]

\* one call as the log shows it
Request(symbol, trade_type, quantity, price, reason, outcome) ==
    [symbol |-> symbol, trade_type |-> trade_type, quantity |-> quantity,
     price |-> price, reason |-> reason, outcome |-> outcome]

\* ------------------------------------------------------------- the clock
\* date 0 is a Wednesday; datetime.weekday() counts Monday as 0
Weekday(date) == (2 + date) % 7

\* ----------------------------------------------------- the merged snapshot
\* one instrument of get_option_chain: strike is in hundredths, as the gateway sends it
ChainItem(token, index_name, k, t, expiry) ==
    [token |-> token, symbol |-> <<index_name, k, t>>, strike |-> k * 100, expiry |-> expiry]

\* one record of get_option_greeks
GreeksItem(token, iv, ltp) == [token |-> token, iv |-> iv, ltp |-> ltp]

OptionChain(index_name, expiry) ==
    << ChainItem(1, index_name, 100, "CE", expiry),
       ChainItem(2, index_name, 100, "PE", expiry),
       ChainItem(4, index_name, 300, "PE", expiry),
       ChainItem(3, index_name, 200, "CE", expiry) >>

GreeksData(shape, iv) ==
    CASE shape = "full" -> << GreeksItem(1, iv, 100), GreeksItem(2, iv, 110), GreeksItem(3, iv, 0) >>
      [] shape = "bad_put" -> << GreeksItem(1, iv, 100), GreeksItem(2, iv, 110),
                                 GreeksItem(3, iv, 0), GreeksItem(4, HugeSigma, 100) >>
      [] shape = "no_put" -> << GreeksItem(1, iv, 100), GreeksItem(3, iv, 0) >>
      [] shape = "no_iv" -> << [token |-> 1, ltp |-> 100], [token |-> 2, ltp |-> 110],
                               [token |-> 3, ltp |-> 0] >>
      [] OTHER -> << GreeksItem(9, iv, 100) >>

\* pd.merge(df_chain, df_greeks, on='token', how='inner'): the chain's rows that
\* have a greeks record, in the chain's order
RECURSIVE Merge(_, _)
Merge(chain, greeks) ==
    IF chain = <<>> THEN <<>>
    ELSE LET c == Head(chain)
             m == SelectSeq(greeks, LAMBDA g : g.token = c.token)
         IN  (IF m = <<>> THEN <<>>
              ELSE IF "iv" \in DOMAIN m[1]
              THEN << [token |-> c.token, symbol |-> c.symbol, strike |-> c.strike,
                       expiry |-> c.expiry, iv |-> m[1].iv, ltp_y |-> m[1].ltp] >>
              ELSE << [token |-> c.token, symbol |-> c.symbol, strike |-> c.strike,
                       expiry |-> c.expiry, ltp_y |-> m[1].ltp] >>)
             \o Merge(Tail(chain), greeks)

\* df_merged['strike'].astype(float) / 100.0
strike_price(row) == row.strike \div 100

\* (df_merged['strike_price'] - underlying_ltp).abs().argsort()[:1]: argsort
\* sorts with kind='quicksort', which is not a stable sort, so among the rows at
\* the least distance from the LTP any one can come first; the sort is
\* deterministic, so the same snapshot and LTP give the same row every time
\* (0 stands for the empty selection of an empty snapshot)
argsort_head(df, ltp) ==
    IF df = <<>> THEN {0}
    ELSE {i \in 1..Len(df) :
            \A j \in 1..Len(df) : Abs(strike_price(df[i]) - ltp) <= Abs(strike_price(df[j]) - ltp)}

Max(a, b) == IF a >= b THEN a ELSE b
Min(a, b) == IF a <= b THEN a ELSE b

\* ------------------------------------------------------ the session IV tracker
\* a mutant of update_session_iv: a window that exists is left as it is
update_session_iv_first_only(tracker, index_name, df, atm) ==
    IF Len(df) = 0 \/ index_name \in DOMAIN tracker THEN tracker
    ELSE IF "iv" \notin DOMAIN df[atm] THEN tracker
    ELSE LET current_iv == df[atm].iv
         IN  PutRow(tracker, index_name, [high |-> current_iv, low |-> current_iv])

\* a mutant of update_session_iv: the low of a window that exists is never lowered
update_session_iv_high_only(tracker, index_name, df, atm) ==
    IF Len(df) = 0 THEN tracker
    ELSE IF "iv" \notin DOMAIN df[atm] THEN tracker
    ELSE LET current_iv == df[atm].iv
         IN  IF index_name \notin DOMAIN tracker
             THEN PutRow(tracker, index_name, [high |-> current_iv, low |-> current_iv])
             ELSE PutRow(tracker, index_name,
                         [high |-> Max(tracker[index_name].high, current_iv),
                          low |-> tracker[index_name].low])

\* TradingEngine.update_session_iv: the tracker after the call
update_session_iv(tracker, index_name, df, atm) ==
    IF Len(df) = 0 THEN tracker                      \* atm_strike.empty: return
    ELSE IF "iv" \notin DOMAIN df[atm] THEN tracker   \* KeyError: except Exception logs it
    ELSE LET current_iv == df[atm].iv
         IN  IF index_name \notin DOMAIN tracker
             THEN PutRow(tracker, index_name, [high |-> current_iv, low |-> current_iv])
             ELSE PutRow(tracker, index_name,
                         [high |-> Max(tracker[index_name].high, current_iv),
                          low |-> Min(tracker[index_name].low, current_iv)])

\* ------------------------------------------------------------- the pricing
\* pricing_model.black_scholes.  `value` is what the closed formula evaluates
\* to on inputs it accepts; sigma is kept in percent (only its sign matters here)
\* what a call of black_scholes ends in: a returned price or an exception
Returned(price) == [raised |-> FALSE, price |-> price]
Raised == [raised |-> TRUE, price |-> 0]

\* a mutant of InvalidType: every type is priced
InvalidType_never(option_type) == FALSE

\* option_type not in ["CE", "PE"]
InvalidType(option_type) == option_type \notin {"CE", "PE"}

\* a mutant of InvalidNumbers: the rate is not looked at
InvalidNumbers_ignores_rate(S, K, r, sigma) == S < 0 \/ K < 0 \/ sigma < 0

\* not all(isinstance(i, (int, float)) and i >= 0 for i in [S, K, r, sigma])
InvalidNumbers(S, K, r, sigma) == S < 0 \/ K < 0 \/ r < 0 \/ sigma < 0

\* T = (time_to_expiry_days + 1) / 365.0
TimeToExpiry(expiry_date, today) == Rat(expiry_date - today + 1, 365)

\* sigma ** 2 on a float beyond the square root of the largest float raises
\* OverflowError; HugeSigma stands for such a float (1e200, say)
Overflows(sigma) == sigma >= HugeSigma

\* the operands of d1 are evaluated left to right: log(S / K), then sigma ** 2,
\* then the division by sigma * sqrt(T)
black_scholes(option_type, S, K, expiry_date, today, r, sigma, value) ==
    IF InvalidType(option_type) THEN Returned(0)
    ELSE IF InvalidNumbers(S, K, r, sigma) THEN Returned(0)
    ELSE IF expiry_date - today < 0 THEN Returned(0)
    ELSE IF K = 0 THEN Returned(0)      \* S / K: ZeroDivisionError
    ELSE IF S = 0 THEN Returned(0)      \* log(0): ValueError
    ELSE IF Overflows(sigma) THEN Raised                 \* OverflowError is not in the except clause
    ELSE IF sigma = 0 THEN Returned(0)  \* division by sigma * sqrt(T): ZeroDivisionError
    ELSE Returned(value)

\* f"{x:.2f}": x rounded to hundredths, as a number of hundredths
Format2f(r) == (200 * r.num + r.den) \div (2 * r.den)

\* symbol[-2:]
Suffix(symbol) == symbol[Len(symbol)]

StepResult(hs, hist, issued, outcome) ==
    [holdings |-> hs, history |-> hist, issued |-> issued, outcome |-> outcome]

\* a mutant of Place: the strategy sells
Place_sell(led, symbol, quantity, price, reason, fault) ==
    LET r == record_trade(led, symbol, "SELL", quantity, price, reason, fault)
    IN  [holdings |-> r.holdings, history |-> r.history,
         request |-> Request(symbol, "SELL", quantity, price, reason, r.outcome)]

\* one record_trade call made by a strategy, on the ledger `led`
Place(led, symbol, quantity, price, reason, fault) ==
    LET r == record_trade(led, symbol, "BUY", quantity, price, reason, fault)
    IN  [holdings |-> r.holdings, history |-> r.history,
         request |-> Request(symbol, "BUY", quantity, price, reason, r.outcome)]

\* a mutant of except_Exception: the clause names the two errors that
\* pricing_model's clause names
except_Exception_math_only(exception) == exception \in {"ValueError", "ZeroDivisionError"}

\* `except Exception as e` in the two strategies: every exception but those
\* that derive from BaseException alone
except_Exception(exception) ==
    exception \notin {"KeyboardInterrupt", "SystemExit", "GeneratorExit"}

\* what a strategy call ends in when `exception` is raised inside its try block
Handled(exception) == IF except_Exception(exception) THEN "error" ELSE "raised"

\* a mutant of ValueTriggered: the threshold itself fires
ValueTriggered_at_threshold(fair_value, market_price) ==
    (fair_value - market_price) * 100 >= trade_trigger_percentage * market_price

\* price_difference_pct > self.trade_trigger_percentage, for market_price > 0
ValueTriggered(fair_value, market_price) ==
    (fair_value - market_price) * 100 > trade_trigger_percentage * market_price

\* TradingEngine.analyze_and_trade_value on one row of the snapshot
analyze_and_trade_value(option_data, ltp, today, led, value, fault) ==
    LET market_price == option_data.ltp_y
        priced == black_scholes(Suffix(option_data.symbol), ltp, strike_price(option_data),
                                option_data.expiry, today, risk_free_rate, option_data.iv, value)
        fair_value == priced.price
    IN  IF "iv" \notin DOMAIN option_data                     \* option_data['iv']: KeyError
        THEN StepResult(led.holdings, led.history, <<>>, Handled("KeyError"))
        ELSE IF market_price <= 0 \/ option_data.iv <= 0
        THEN StepResult(led.holdings, led.history, <<>>, "no_data")
        ELSE IF priced.raised
        THEN StepResult(led.holdings, led.history, <<>>, Handled("OverflowError"))
        ELSE IF fair_value <= 0
        THEN StepResult(led.holdings, led.history, <<>>, "no_fair_value")
        ELSE IF ValueTriggered(fair_value, market_price)
        THEN LET reason == [kind |-> "value", a |-> fair_value * 100,
                            b |-> Format2f(Rat((fair_value - market_price) * 100, market_price))]
                 r == Place(led, option_data.symbol, trade_quantity, market_price, reason, fault)
             IN  StepResult(r.holdings, r.history, <<r.request>>, "buy")
        ELSE StepResult(led.holdings, led.history, <<>>, "no_trade")

\* ------------------------------------------------------ the expiry straddle
\* self.expiry_trade_fired_today.get(index_name) == now.date()
AlreadyFired(fired, index_name, t) ==
    index_name \in DOMAIN fired /\ fired[index_name] = t.date

\* a mutant of GateClosed: both conditions are needed to close the gate
GateClosed_and(t) == Weekday(t.date) # expiry_weekday /\ t.tod < strategy_start_time

\* now.weekday() != self.expiry_weekday or now.time() < self.strategy_start_time
GateClosed(t) == Weekday(t.date) # expiry_weekday \/ t.tod < strategy_start_time

\* a mutant of SessionIvRank: an empty range ranks 0
SessionIvRank_empty_range_zero(current_iv, iv_high, iv_low) ==
    IF iv_high - iv_low = 0 THEN RatOfInt(0)
    ELSE Rat((current_iv - iv_low) * 100, iv_high - iv_low)

\* the session IV rank, an exact fraction
SessionIvRank(current_iv, iv_high, iv_low) ==
    IF iv_high - iv_low = 0 THEN RatOfInt(50)
    ELSE Rat((current_iv - iv_low) * 100, iv_high - iv_low)

\* a mutant of RankBelow: a rank equal to the limit passes too
RankBelow_or_equal(rank, limit) == rank.num <= limit * rank.den

\* session_iv_rank < self.max_iv_rank
RankBelow(rank, limit) == rank.num < limit * rank.den

\* df_merged[(strike_price == k) & symbol.str.endswith(suffix)]
Legs(df, k, suffix) ==
    SelectSeq(df, LAMBDA row : strike_price(row) = k /\ Suffix(row.symbol) = suffix)

\* a mutant of PutLegPrice: the put is bought at the call's price
PutLegPrice_of_call(atm_call, atm_put) == atm_call.ltp_y

\* atm_put['ltp_y']
PutLegPrice(atm_call, atm_put) == atm_put.ltp_y

\* a mutant of MarkFired: the guard is left as it was
MarkFired_not_set(fired, index_name, t) == fired

\* self.expiry_trade_fired_today[index_name] = now.date()
MarkFired(fired, index_name, t) == PutRow(fired, index_name, t.date)

StraddleResult(fired, hs, hist, issued, outcome) ==
    [fired |-> fired, holdings |-> hs, history |-> hist, issued |-> issued, outcome |-> outcome]

\* TradingEngine.execute_expiry_straddle_strategy at time t
execute_expiry_straddle_strategy(index_name, df, atm, t, tracker, fired, led, fault1, fault2) ==
    LET nothing(outcome) == StraddleResult(fired, led.holdings, led.history, <<>>, outcome)
    IN  IF AlreadyFired(fired, index_name, t) THEN nothing("already_fired")
        ELSE IF GateClosed(t) THEN nothing("gate_closed")
        ELSE IF index_name \notin DOMAIN tracker THEN nothing("no_tracker")
        ELSE IF Len(df) = 0 THEN nothing(Handled("IndexError"))     \* atm_option_row.iloc[0]
        ELSE IF "iv" \notin DOMAIN df[atm] THEN nothing(Handled("KeyError"))   \* ...['iv']
        ELSE
        LET atm_option_row == df[atm]
            session_iv_rank == SessionIvRank(atm_option_row.iv, tracker[index_name].high,
                                             tracker[index_name].low)
        IN  IF ~RankBelow(session_iv_rank, max_iv_rank) THEN nothing("rank_high")
            ELSE
            LET calls_ == Legs(df, strike_price(atm_option_row), "CE")
                puts_ == Legs(df, strike_price(atm_option_row), "PE")
            IN  IF calls_ = <<>> \/ puts_ = <<>> THEN nothing(Handled("IndexError"))  \* .iloc[0]
                ELSE
                LET atm_call == calls_[1]
                    atm_put == puts_[1]
                    reason == [kind |-> "straddle", a |-> Format2f(session_iv_rank),
                               b |-> max_iv_rank * 100]
                    r1 == Place(led, atm_call.symbol, trade_quantity, atm_call.ltp_y, reason, fault1)
                    r2 == Place(r1, atm_put.symbol, trade_quantity,
                                PutLegPrice(atm_call, atm_put), reason, fault2)
                IN  StraddleResult(MarkFired(fired, index_name, t), r2.holdings, r2.history,
                                   <<r1.request, r2.request>>, "fired")

\* ------------------------------------------------------------------ Init
\* the database file as create_engine finds it: new, or left by an earlier run
\* that bought one put
EmptyLedger == [holdings |-> [s \in {} |-> 0], history |-> <<>>]
StoredLedgers ==
    {EmptyLedger,
     record_trade(EmptyLedger, <<"NIFTY", 100, "PE">>, "BUY", 5, 100, NoReason, "none")}

\* what a process holds in memory when it starts
InitMemory ==
    /\ calls = 0
    /\ last = [op |-> "init", outcome |-> "", issued |-> <<>>]
    /\ pc = "loop"
    /\ idx = 1
    /\ cycles = 0
    /\ session_iv_tracker = [s \in {} |-> 0]
    /\ expiry_trade_fired_today = [s \in {} |-> 0]
    /\ df_merged = <<>>
    /\ underlying_ltp = 0
    /\ atm_i = 0
    /\ opt_i = 1
    /\ straddle_executions = {}
    /\ straddle_declined = {}
    /\ iv_observed = [s \in {} |-> 0]

\* PortfolioManager() used on its own: no engine runs, the clock stands still
Init ==
    /\ \E led \in StoredLedgers : holdings = led.holdings /\ history = led.history
    /\ now = [date |-> 0, tod |-> 0]
    /\ expiry_strategy_enabled = FALSE
    /\ InitMemory

\* TradingEngine(config_path) on a new database
InitEngine ==
    /\ holdings = EmptyLedger.holdings /\ history = EmptyLedger.history
    /\ \E date \in StartDates : now = [date |-> date, tod |-> 0]
    /\ expiry_strategy_enabled \in BOOLEAN
    /\ InitMemory

\* ------------------------------------------- the ledger's caller (portfolio API)
RecordTrade(symbol, trade_type, quantity, price, fault) ==
    /\ calls < MaxCalls
    /\ LET r == record_trade([holdings |-> holdings, history |-> history],
                             symbol, trade_type, quantity, price, NoReason, fault)
       IN  /\ holdings' = r.holdings
           /\ history' = r.history
           /\ last' = [op |-> "record_trade", outcome |-> r.outcome,
                       issued |-> <<Request(symbol, trade_type, quantity, price, NoReason, r.outcome)>>]
    /\ calls' = calls + 1
    /\ UNCHANGED engine_vars

GetAllHoldings ==
    /\ last' = [op |-> "get_all_holdings", outcome |-> "ok", issued |-> <<>>]
    /\ UNCHANGED <<holdings, history, calls>>
    /\ UNCHANGED engine_vars

GetTradeHistory ==
    /\ last' = [op |-> "get_trade_history", outcome |-> "ok", issued |-> <<>>]
    /\ UNCHANGED <<holdings, history, calls>>
    /\ UNCHANGED engine_vars

Next ==
    \/ \E symbol \in CallSymbols, trade_type \in CallSides, quantity \in CallQuantities,
          price \in CallPrices, fault \in Faults :
            RecordTrade(symbol, trade_type, quantity, price, fault)
    \/ GetAllHoldings
    \/ GetTradeHistory

Spec == Init /\ [][Next]_vars

\* ------------------------------------------------------ TradingEngine.run
Did(op, outcome, issued) == [op |-> op, outcome |-> outcome, issued |-> issued]
index_name == symbols_to_watch[idx]
LedgerNow == [holdings |-> holdings, history |-> history]
\* where process_index goes after the value strategy's loop
AfterValue == IF expiry_strategy_enabled THEN "straddle" ELSE "symbol_sleep"

\* while True: a new cycle starts
StartCycle ==
    /\ pc = "loop"
    /\ cycles < MaxCycles
    /\ cycles' = cycles + 1
    /\ idx' = 1
    /\ pc' = "for"
    /\ last' = Did("run", "cycle", <<>>)
    /\ UNCHANGED <<holdings, history, calls, now, expiry_strategy_enabled, session_iv_tracker,
                   expiry_trade_fired_today, df_merged, underlying_ltp, atm_i, opt_i, straddle_executions,
                   straddle_declined, iv_observed>>

\* for index_name in self.symbols_to_watch
ForSymbol ==
    /\ pc = "for"
    /\ \/ /\ idx > Len(symbols_to_watch)
          /\ pc' = "cycle_sleep"
          /\ idx' = idx
          /\ last' = Did("run", "cycle_finished", <<>>)
       \/ /\ idx <= Len(symbols_to_watch)
          /\ index_name \notin symbol_details
          /\ pc' = "for"
          /\ idx' = idx + 1
          /\ last' = Did("run", "undefined_symbol", <<>>)
       \/ /\ idx <= Len(symbols_to_watch)
          /\ index_name \in symbol_details
          /\ pc' = "process_index"
          /\ idx' = idx
          /\ last' = Did("run", "process_index", <<>>)
    /\ UNCHANGED <<holdings, history, calls, cycles, now, expiry_strategy_enabled,
                   session_iv_tracker, expiry_trade_fired_today, df_merged, underlying_ltp, atm_i,
                   opt_i, straddle_executions,
                   straddle_declined, iv_observed>>

\* what the gateway answers: get_live_equity_data gives None (<<>>) or a price
\* (<<ltp>>), get_option_chain a list, get_option_greeks None or a list (<<>>
\* stands for both None and the empty list: `not greeks_data` takes them alike)
LtpAnswers == {<<>>} \cup {<<ltp>> : ltp \in LTPs}
ChainAnswers(name, expiry) == {<<>>, OptionChain(name, expiry)}
GreeksAnswers ==
    {<<>>} \cup {GreeksData("full", iv) : iv \in IVs}
           \cup {GreeksData(shape, 10) : shape \in SnapshotShapes \ {"full"}}

\* a mutant of Skipped: missing greeks do not end the call
Skipped_with_greeks_missing(ltp, option_chain, greeks_data) ==
    ltp = <<>> \/ option_chain = <<>>

\* underlying_ltp is None / not option_chain / not greeks_data: return
Skipped(ltp, option_chain, greeks_data) ==
    ltp = <<>> \/ option_chain = <<>> \/ greeks_data = <<>>

\* process_index up to the merge: the three fetches.  A fetch after a failed
\* one is not made, so nothing is obtained from it.
Fetch ==
    /\ pc = "process_index"
    /\ \E ltp \in LtpAnswers, option_chain \in ChainAnswers(index_name, now.date),
          greeks_data \in GreeksAnswers :
         /\ ltp = <<>> => option_chain = <<>>
         /\ option_chain = <<>> => greeks_data = <<>>
         /\ LET fetched == [ltp |-> Len(ltp), option_chain |-> Len(option_chain),
                            greeks_data |-> Len(greeks_data)]
            IN  IF Skipped(ltp, option_chain, greeks_data)
                THEN /\ last' = [op |-> "process_index", outcome |-> "skipped",
                                 issued |-> <<>>, fetched |-> fetched]
                     /\ pc' = "symbol_sleep"
                     /\ UNCHANGED <<df_merged, underlying_ltp, atm_i>>
                ELSE /\ underlying_ltp' = ltp[1]
                     /\ df_merged' = Merge(option_chain, greeks_data)
                     /\ atm_i' \in argsort_head(Merge(option_chain, greeks_data), ltp[1])
                     /\ pc' = "update_session_iv"
                     /\ last' = [op |-> "process_index", outcome |-> "merged",
                                 issued |-> <<>>, fetched |-> fetched]
    /\ UNCHANGED <<holdings, history, calls, idx, cycles, now, expiry_strategy_enabled,
                   session_iv_tracker, expiry_trade_fired_today, opt_i, straddle_executions,
                   straddle_declined, iv_observed>>

\* the process ends: what it held in memory is gone
MemoryLost ==
    /\ pc' = "stopped"
    /\ idx' = 1
    /\ session_iv_tracker' = [s \in {} |-> 0]
    /\ expiry_trade_fired_today' = [s \in {} |-> 0]
    /\ df_merged' = <<>>
    /\ underlying_ltp' = 0
    /\ atm_i' = 0
    /\ opt_i' = 1
    /\ UNCHANGED <<calls, cycles, now, expiry_strategy_enabled, straddle_executions,
                   straddle_declined, iv_observed>>

\* the process ends outside a record_trade call: the database file stays as it is
Exited ==
    /\ MemoryLost
    /\ UNCHANGED <<holdings, history>>

\* an exception out of process_index (the gateway calls and the merge are not
\* guarded there): run's except Exception logs it and the loop is left
ProcessIndexRaises ==
    /\ pc = "process_index"
    /\ last' = Did("process_index", "raised", <<>>)
    /\ Exited

\* what the call observes: the at-the-money IV, filed under the date of the call
ObserveIv(observed, name, df, atm, date) ==
    IF Len(df) = 0 THEN observed
    ELSE IF "iv" \notin DOMAIN df[atm] THEN observed
    ELSE LET iv == df[atm].iv
         IN  IF name \in DOMAIN observed /\ observed[name].date = date
             THEN PutRow(observed, name, [date |-> date, high |-> Max(observed[name].high, iv),
                                          low |-> Min(observed[name].low, iv)])
             ELSE PutRow(observed, name, [date |-> date, high |-> iv, low |-> iv])

UpdateSessionIv ==
    /\ pc = "update_session_iv"
    /\ LET outcome == IF Len(df_merged) > 0 /\ "iv" \notin DOMAIN df_merged[atm_i]
                      THEN Handled("KeyError") ELSE "ok"
       IN  /\ last' = Did("update_session_iv", outcome, <<>>)
           /\ IF outcome = "raised"
              THEN Exited
              ELSE /\ session_iv_tracker' = update_session_iv(session_iv_tracker, index_name,
                                                              df_merged, atm_i)
                   /\ iv_observed' = ObserveIv(iv_observed, index_name, df_merged, atm_i, now.date)
                   /\ opt_i' = 1
                   /\ pc' = IF Len(df_merged) = 0 THEN AfterValue ELSE "value"
                   /\ UNCHANGED <<holdings, history, idx, expiry_trade_fired_today, df_merged,
                                  underlying_ltp, atm_i>>
    /\ UNCHANGED <<calls, cycles, now, expiry_strategy_enabled, straddle_executions,
                   straddle_declined>>

\* for _, option in df_merged.iterrows(): one row.  An exception that the call
\* let through would reach run's handlers and end the loop.
AnalyzeAndTradeValue ==
    /\ pc = "value"
    /\ \E value \in FairValues, fault \in EngineFaults :
         LET r == analyze_and_trade_value(df_merged[opt_i], underlying_ltp, now.date,
                                          LedgerNow, value, fault)
         IN  /\ holdings' = r.holdings
             /\ history' = r.history
             /\ last' = Did("analyze_and_trade_value", r.outcome, r.issued)
             /\ IF r.outcome = "raised"
                THEN Exited
                ELSE /\ opt_i' = opt_i + 1
                     /\ pc' = IF opt_i = Len(df_merged) THEN AfterValue ELSE "value"
                     /\ UNCHANGED <<idx, session_iv_tracker, expiry_trade_fired_today,
                                    df_merged, underlying_ltp, atm_i>>
    /\ UNCHANGED <<calls, cycles, now, expiry_strategy_enabled, straddle_executions,
                   straddle_declined, iv_observed>>

ExecuteExpiryStraddleStrategy ==
    /\ pc = "straddle"
    /\ \E fault1 \in EngineFaults, fault2 \in EngineFaults :
         LET r == execute_expiry_straddle_strategy(index_name, df_merged, atm_i, now,
                        session_iv_tracker, expiry_trade_fired_today, LedgerNow, fault1, fault2)
         IN  /\ holdings' = r.holdings
             /\ history' = r.history
             /\ last' = Did("execute_expiry_straddle_strategy", r.outcome, r.issued)
             /\ straddle_executions' = IF r.outcome = "fired"
                                       THEN straddle_executions \cup {<<index_name, now.date>>}
                                       ELSE straddle_executions
             /\ straddle_declined' = IF r.outcome = "rank_high"
                                     THEN straddle_declined \cup {<<index_name, now.date>>}
                                     ELSE straddle_declined
             /\ IF r.outcome = "raised"
                THEN Exited
                ELSE /\ expiry_trade_fired_today' = r.fired
                     /\ pc' = "symbol_sleep"
                     /\ UNCHANGED <<idx, session_iv_tracker, df_merged, underlying_ltp, atm_i, opt_i>>
    /\ UNCHANGED <<calls, cycles, now, expiry_strategy_enabled, iv_observed>>

\* time.sleep(self.api_client.REQUEST_INTERVAL_SECONDS)
SymbolSleep ==
    /\ pc = "symbol_sleep"
    /\ idx' = idx + 1
    /\ pc' = "for"
    /\ df_merged' = <<>>
    /\ underlying_ltp' = 0
    /\ atm_i' = 0
    /\ opt_i' = 1
    /\ last' = Did("run", "symbol_sleep", <<>>)
    /\ UNCHANGED <<holdings, history, calls, cycles, now, expiry_strategy_enabled,
                   session_iv_tracker, expiry_trade_fired_today, straddle_executions,
                   straddle_declined, iv_observed>>

\* time.sleep(self.run_interval_seconds)
CycleSleep ==
    /\ pc = "cycle_sleep"
    /\ pc' = "loop"
    /\ last' = Did("run", "cycle_sleep", <<>>)
    /\ UNCHANGED <<holdings, history, calls, idx, cycles, now, expiry_strategy_enabled,
                   session_iv_tracker, expiry_trade_fired_today, df_merged, underlying_ltp, atm_i,
                   opt_i, straddle_executions,
                   straddle_declined, iv_observed>>

\* the wall clock moves on while the loop sleeps
Tick ==
    /\ pc \in {"symbol_sleep", "cycle_sleep"}
    /\ \/ /\ now.tod + 1 \in TimesOfDay
          /\ now' = [now EXCEPT !.tod = @ + 1]
       \/ /\ now.tod + 1 \notin TimesOfDay
          /\ now.date < MaxDay
          /\ now' = [date |-> now.date + 1, tod |-> 0]
    /\ last' = Did("tick", "", <<>>)
    /\ UNCHANGED <<holdings, history, calls, pc, idx, cycles, expiry_strategy_enabled,
                   session_iv_tracker, expiry_trade_fired_today, df_merged, underlying_ltp, atm_i,
                   opt_i, straddle_executions,
                   straddle_declined, iv_observed>>

\* except KeyboardInterrupt: ... finally: self.shutdown()
KeyboardInterrupt ==
    /\ pc # "stopped"
    /\ last' = Did("run", "keyboard_interrupt", <<>>)
    /\ Exited

\* a KeyboardInterrupt that arrives while a strategy's record_trade call is in
\* flight: it passes the strategy's `except Exception` and reaches run's
\* `except KeyboardInterrupt`; `before` is the ledger when the call began
InterruptedCall(before, request, at) ==
    LET led == record_trade_interrupted(before, request.symbol, request.trade_type,
                                        request.quantity, request.price, request.reason, at)
    IN  /\ holdings' = led.holdings
        /\ history' = led.history
        /\ last' = [op |-> "record_trade", outcome |-> "keyboard_interrupt",
                    issued |-> <<[request EXCEPT !.outcome = "interrupted"]>>,
                    before |-> [holdings |-> before.holdings, history |-> before.history],
                    at |-> at]
        /\ MemoryLost

KeyboardInterruptInRecordTrade ==
    \/ /\ pc = "value"
       /\ \E value \in FairValues, at \in InterruptPoints :
            LET r == analyze_and_trade_value(df_merged[opt_i], underlying_ltp, now.date,
                                             LedgerNow, value, "none")
            IN  /\ r.outcome = "buy"
                /\ InterruptedCall(LedgerNow, r.issued[1], at)
    \/ /\ pc = "straddle"
       /\ \E fault1 \in EngineFaults, leg \in 1..2, at \in InterruptPoints :
            LET r == execute_expiry_straddle_strategy(index_name, df_merged, atm_i,
                           now, session_iv_tracker, expiry_trade_fired_today, LedgerNow,
                           fault1, "none")
                r1 == Place(LedgerNow, r.issued[1].symbol, r.issued[1].quantity,
                            r.issued[1].price, r.issued[1].reason, fault1)
            IN  /\ r.outcome = "fired"
                /\ InterruptedCall(IF leg = 1 THEN LedgerNow ELSE r1, r.issued[leg], at)

NextEngine ==
    \/ KeyboardInterruptInRecordTrade
    \/ StartCycle
    \/ ForSymbol
    \/ Fetch
    \/ ProcessIndexRaises
    \/ UpdateSessionIv
    \/ AnalyzeAndTradeValue
    \/ ExecuteExpiryStraddleStrategy
    \/ SymbolSleep
    \/ CycleSleep
    \/ Tick
    \/ KeyboardInterrupt

SpecEngine == InitEngine /\ [][NextEngine]_vars

\* --------------------------------- the caller of the pricing and value functions
\* black_scholes called on its own, days_to_expiry days before the expiry date
BlackScholes(option_type, S, K, days_to_expiry, r, sigma, value) ==
    /\ LET priced == black_scholes(option_type, S, K, now.date + days_to_expiry, now.date,
                                   r, sigma, value)
       IN  last' = [op |-> "black_scholes",
                    outcome |-> IF priced.raised THEN "raised" ELSE "returned",
                    issued |-> <<>>,
                    args |-> [option_type |-> option_type, S |-> S, K |-> K,
                              days_to_expiry |-> days_to_expiry, r |-> r, sigma |-> sigma,
                              value |-> value],
                    price |-> priced.price,
                    T |-> TimeToExpiry(now.date + days_to_expiry, now.date)]
    /\ UNCHANGED <<holdings, history, calls>>
    /\ UNCHANGED engine_vars

\* analyze_and_trade_value called on one option row
AnalyzeOption(suffix, market_price, iv, days_to_expiry, ltp, value, fault) ==
    /\ Len(history) < MaxCalls
    /\ LET option_data == [token |-> 1, symbol |-> <<"NIFTY", 100, suffix>>, strike |-> 100 * 100,
                           expiry |-> now.date + days_to_expiry, iv |-> iv, ltp_y |-> market_price]
           priced == black_scholes(suffix, ltp, strike_price(option_data), option_data.expiry,
                                   now.date, risk_free_rate, iv, value)
           r == analyze_and_trade_value(option_data, ltp, now.date, LedgerNow, value, fault)
       IN  /\ holdings' = r.holdings
           /\ history' = r.history
           /\ last' = [op |-> "analyze_and_trade_value", outcome |-> r.outcome,
                       issued |-> r.issued, option_data |-> option_data,
                       priced |-> priced]
    /\ UNCHANGED calls
    /\ UNCHANGED engine_vars

NextPricing ==
    \/ \E option_type \in PricedTypes, S \in PricedNumbers, K \in PricedNumbers,
          days_to_expiry \in PricedDaysToExpiry, r \in PricedRates, sigma \in PricedSigmas,
          value \in PricedValues :
            BlackScholes(option_type, S, K, days_to_expiry, r, sigma, value)
    \/ \E suffix \in AnalyzedSuffixes, market_price \in AnalyzedMarketPrices, iv \in AnalyzedIVs,
          days_to_expiry \in AnalyzedDaysToExpiry, ltp \in AnalyzedLTPs, value \in AnalyzedValues,
          fault \in EngineFaults :
            AnalyzeOption(suffix, market_price, iv, days_to_expiry, ltp, value, fault)

\* the two functions called on their own, on a new database
InitPricing ==
    /\ holdings = EmptyLedger.holdings /\ history = EmptyLedger.history
    /\ now = [date |-> 0, tod |-> 0]
    /\ expiry_strategy_enabled = FALSE
    /\ InitMemory

SpecPricing == InitPricing /\ [][NextPricing]_vars

\* ===================================================== claims on the ledger
\* a step that is one direct record_trade call, and what the call asked
IsRecordTradeCall == calls' = calls + 1
Asked == last'.issued[1]
HeldQuantity(hs, symbol) == IF symbol \in DOMAIN hs THEN hs[symbol].quantity ELSE 0
IsPrefix(s, t) == Len(s) <= Len(t) /\ \A i \in 1..Len(s) : t[i] = s[i]

\* C1 (as claimed): every record_trade call, whatever its side and quantity,
\* either leaves the committed ledger as it was or commits one new history row
\* together with the holdings change of that trade (the symbol's held quantity
\* moved by the traded quantity, up for BUY, down for SELL); a history row with
\* no holdings change is never committed.
C1_AllOrNothing ==
    [][IsRecordTradeCall =>
        LET side == Upper(Asked.trade_type)
        IN  \/ (history' = history /\ holdings' = holdings)
            \/ /\ history' = Append(history, TradeHistory(Asked.symbol, Asked.trade_type,
                                                          Asked.quantity, Asked.price, Asked.reason))
               /\ side \in {"BUY", "SELL"}
               /\ HeldQuantity(holdings', Asked.symbol)
                    = HeldQuantity(holdings, Asked.symbol)
                      + (IF side = "BUY" THEN Asked.quantity ELSE -Asked.quantity)]_vars

\* C2: a SELL for a symbol with no holding, or with less held than sold, leaves
\* the committed holdings and history, and what the two read operations return,
\* exactly as they were before the call.
C2_SellRejectedLeavesLedger ==
    [][(/\ IsRecordTradeCall
        /\ Upper(Asked.trade_type) = "SELL"
        /\ (\/ Asked.symbol \notin DOMAIN holdings
            \/ holdings[Asked.symbol].quantity < Asked.quantity))
       => /\ history' = history
          /\ holdings' = holdings
          /\ last'.outcome # "committed"
          /\ get_all_holdings(holdings') = get_all_holdings(holdings)
          /\ get_trade_history(history') = get_trade_history(history)]_vars

\* C2 witness: a SELL of more than is held was just turned down, with a
\* holding and a history row in place
C2_Witness ==
    /\ last.op = "record_trade" /\ last.outcome = "rejected"
    /\ last.issued[1].symbol \in DOMAIN holdings
    /\ holdings[last.issued[1].symbol].quantity > 0
    /\ holdings[last.issued[1].symbol].quantity < last.issued[1].quantity
    /\ Len(history) >= 1

\* C3 (as claimed): in every reachable ledger state no holdings row has
\* quantity 0 or a negative quantity.
C3_NoZeroQuantityRow == \A s \in DOMAIN holdings : holdings[s].quantity > 0

\* C4: a committed BUY on a symbol with no holding creates the holding with the
\* bought quantity and the trade price as average price; a committed BUY on an
\* existing holding (oldQty, oldAvg) sets the quantity to oldQty + quantity and the
\* average price to (oldAvg*oldQty + price*quantity) / (oldQty + quantity).
C4_BuyUpdatesHolding ==
    [][(/\ IsRecordTradeCall
        /\ last'.outcome = "committed"
        /\ Upper(Asked.trade_type) = "BUY")
       => /\ Asked.symbol \in DOMAIN holdings'
          /\ LET new == holdings'[Asked.symbol]
             IN  IF Asked.symbol \notin DOMAIN holdings
                 THEN /\ new.quantity = Asked.quantity
                      /\ new.average_price = [num |-> Asked.price, den |-> 1]
                 ELSE LET old == holdings[Asked.symbol]
                      IN  /\ new.quantity = old.quantity + Asked.quantity
                          /\ new.average_price.den > 0
                          /\ new.average_price.num * old.average_price.den
                                * (old.quantity + Asked.quantity)
                             = (old.average_price.num * old.quantity
                                + Asked.price * Asked.quantity * old.average_price.den)
                               * new.average_price.den]_vars

\* C4 witness: BUY 10 @ 100 then BUY 5 @ 130 has left quantity 15 at average 110
C4_Witness ==
    /\ Len(history) = 2
    /\ \A i \in 1..2 : history[i].symbol = <<"NIFTY", 100, "CE">> /\ history[i].trade_type = "BUY"
    /\ history[1].quantity = 10 /\ history[1].price = 100
    /\ history[2].quantity = 5 /\ history[2].price = 130
    /\ <<"NIFTY", 100, "CE">> \in DOMAIN holdings
    /\ holdings[<<"NIFTY", 100, "CE">>] = [quantity |-> 15, average_price |-> [num |-> 110, den |-> 1]]

\* C5: a committed SELL lowers the symbol's held quantity by exactly the sold
\* quantity, leaves that holding's average price as it was (while the row
\* remains), and leaves every other symbol's holding unchanged.
C5_SellFrame ==
    [][(/\ IsRecordTradeCall
        /\ last'.outcome = "committed"
        /\ Upper(Asked.trade_type) = "SELL")
       => /\ Asked.symbol \in DOMAIN holdings
          /\ HeldQuantity(holdings', Asked.symbol) = holdings[Asked.symbol].quantity - Asked.quantity
          /\ (Asked.symbol \in DOMAIN holdings'
                => holdings'[Asked.symbol].average_price = holdings[Asked.symbol].average_price)
          /\ \A s \in AllSymbols \ {Asked.symbol} :
                /\ (s \in DOMAIN holdings') = (s \in DOMAIN holdings)
                /\ (s \in DOMAIN holdings => holdings'[s] = holdings[s])]_vars

\* C5 witness: a partial SELL was just committed while another symbol is held
C5_Witness ==
    /\ last.op = "record_trade" /\ last.outcome = "committed"
    /\ Upper(last.issued[1].trade_type) = "SELL" /\ last.issued[1].quantity > 0
    /\ last.issued[1].symbol \in DOMAIN holdings
    /\ \E s \in DOMAIN holdings : s # last.issued[1].symbol /\ holdings[s].quantity > 0

\* C6 (as claimed): every committed trade_history row has side BUY or SELL,
\* quantity > 0 and price >= 0 (so a call with another side, or with a quantity
\* that is not positive, adds no row).
C6_HistoryRowsValid ==
    \A i \in 1..Len(history) :
        /\ history[i].trade_type \in {"BUY", "SELL"}
        /\ history[i].quantity > 0
        /\ history[i].price >= 0

\* C7: trade_history is append-only: across record_trade, get_all_holdings and
\* get_trade_history no committed row is changed or removed, and one call adds
\* at most one row.
C7_HistoryAppendOnly ==
    [][/\ IsPrefix(history, history')
       /\ Len(history') <= Len(history) + 1
       /\ (last'.op \in {"get_all_holdings", "get_trade_history"} => history' = history)]_vars

\* C7 witness: the history was read back with two committed rows in it
C7_Witness ==
    /\ last.op = "get_trade_history"
    /\ Len(history) >= 2
    /\ history[1] # history[2]
    /\ get_trade_history(history)[1] = history[Len(history)]

\* ===================================================== claims on the engine
\* a step that is one whole call of execute_expiry_straddle_strategy
IsStraddleCall == pc = "straddle" /\ pc' = "symbol_sleep"
\* the three conditions of the gate, read off the state before the call
GuardSetToday ==
    /\ index_name \in DOMAIN expiry_trade_fired_today
    /\ expiry_trade_fired_today[index_name] = now.date
OnExpiryWeekday == Weekday(now.date) = expiry_weekday
AtOrAfterStart == now.tod >= strategy_start_time
GateOpen == ~GuardSetToday /\ OnExpiryWeekday /\ AtOrAfterStart
\* the at-the-money row of the snapshot in hand and the session IV rank at it
AtmRow == df_merged[atm_i]
\* the snapshot in hand has an at-the-money row with an IV
SnapshotHasIv == Len(df_merged) > 0 /\ "iv" \in DOMAIN df_merged[atm_i]
RankIsBelowMax ==
    /\ index_name \in DOMAIN session_iv_tracker
    /\ SnapshotHasIv
    /\ LET t == session_iv_tracker[index_name]
       IN  IF t.high = t.low THEN 50 < max_iv_rank
           ELSE (AtmRow.iv - t.low) * 100 < max_iv_rank * (t.high - t.low)
\* the rows of the snapshot at the at-the-money strike with the given suffix
AtmLegRows(suffix) ==
    {i \in 1..Len(df_merged) :
        /\ df_merged[i].strike = AtmRow.strike
        /\ df_merged[i].symbol[3] = suffix}
FirstOf(S) == CHOOSE i \in S : \A j \in S : i <= j
\* the rows that the committed requests of a call add to the history
RECURSIVE CommittedRows(_)
CommittedRows(issued) ==
    IF issued = <<>> THEN <<>>
    ELSE (IF Head(issued).outcome = "committed"
          THEN << [symbol |-> Head(issued).symbol, trade_type |-> "BUY",
                   quantity |-> Head(issued).quantity, price |-> Head(issued).price,
                   reason |-> Head(issued).reason] >>
          ELSE <<>>) \o CommittedRows(Tail(issued))
\* what C9 promises of one call: two BUY requests, the CE leg then the PE leg of
\* the at-the-money strike, trade_quantity units each, each at its own row's
\* price, one reason; the rows of the requests that met no storage error are
\* appended; the guard is set to today
StraddleFires ==
    LET ce == df_merged[FirstOf(AtmLegRows("CE"))]
        pe == df_merged[FirstOf(AtmLegRows("PE"))]
        req == last'.issued
    IN  /\ last'.outcome = "fired"
        /\ AtmLegRows("CE") # {} /\ AtmLegRows("PE") # {}
        /\ Len(req) = 2
        /\ \A i \in 1..2 : req[i].trade_type = "BUY" /\ req[i].quantity = trade_quantity
        /\ req[1].symbol = ce.symbol /\ req[1].price = ce.ltp_y
        /\ req[2].symbol = pe.symbol /\ req[2].price = pe.ltp_y
        /\ req[1].reason = req[2].reason /\ req[1].reason.kind = "straddle"
        /\ history' = history \o CommittedRows(req)
        /\ index_name \in DOMAIN expiry_trade_fired_today'
        /\ expiry_trade_fired_today'[index_name] = now.date

\* C8: once the straddle has fired for a symbol on a date, every later call of
\* execute_expiry_straddle_strategy for that symbol on that date makes no
\* record_trade call and leaves holdings and history as they were, whatever the
\* IV rank.
C8_StraddleOncePerDay ==
    [][(IsStraddleCall /\ <<index_name, now.date>> \in straddle_executions)
       => /\ last'.issued = <<>>
          /\ history' = history
          /\ holdings' = holdings]_vars

\* C8 witness: a call found the guard set on an expiry day after the start
\* time, with both legs in the snapshot and the rank below the maximum, and two
\* straddle rows from the earlier call in the history
C8_Witness ==
    /\ last.op = "execute_expiry_straddle_strategy" /\ last.outcome = "already_fired"
    /\ <<index_name, now.date>> \in straddle_executions
    /\ OnExpiryWeekday /\ AtOrAfterStart
    /\ RankIsBelowMax
    /\ AtmLegRows("CE") # {} /\ AtmLegRows("PE") # {}
    /\ \E i, j \in 1..Len(history) :
         i < j /\ history[i].reason.kind = "straddle" /\ history[j].reason.kind = "straddle"

\* C9 (as claimed): whenever the gate is open and the session IV rank is
\* strictly below max_iv_rank, the call issues the two BUYs and sets the guard.
C9_StraddleFiresWhenRankLow ==
    [][(IsStraddleCall /\ GateOpen /\ RankIsBelowMax) => StraddleFires]_vars

\* C9 (amended): whenever the gate is open, the session IV rank is strictly
\* below max_iv_rank and the snapshot has a CE row and a PE row at the
\* at-the-money strike, the call issues two BUYs (CE leg, PE leg), each of
\* trade_quantity units at its own leg's price with one shared reason, and sets
\* the guard to today; when the gate is open and the rank is below the maximum
\* but a leg is missing, the call makes no trade and leaves the guard as it was.
C9_StraddleFiresWhenLegsPresent ==
    [][(IsStraddleCall /\ GateOpen /\ RankIsBelowMax)
       => IF AtmLegRows("CE") # {} /\ AtmLegRows("PE") # {}
          THEN StraddleFires
          ELSE /\ last'.issued = <<>>
               /\ UNCHANGED <<holdings, history, expiry_trade_fired_today>>]_vars

\* C9 witness: the straddle has just fired, both rows are committed at
\* different prices and the guard shows today
C9_Witness ==
    /\ last.op = "execute_expiry_straddle_strategy" /\ last.outcome = "fired"
    /\ Len(last.issued) = 2
    /\ last.issued[1].outcome = "committed" /\ last.issued[2].outcome = "committed"
    /\ last.issued[1].symbol[3] = "CE" /\ last.issued[2].symbol[3] = "PE"
    /\ last.issued[1].price # last.issued[2].price
    /\ Len(history) >= 2
    /\ history[Len(history)].symbol = last.issued[2].symbol
    /\ history[Len(history) - 1].symbol = last.issued[1].symbol
    /\ GuardSetToday

\* C10: a call of execute_expiry_straddle_strategy on a weekday other than the
\* expiry weekday, or before the strategy start time, makes no record_trade call
\* and changes neither the ledger, nor the session IV tracker, nor the guard,
\* whatever the IV rank; and with the expiry strategy disabled process_index
\* never reaches the call.
C10_GateClosedNoEffect ==
    /\ [](~expiry_strategy_enabled
            => pc # "straddle" /\ last.op # "execute_expiry_straddle_strategy")
    /\ [][(IsStraddleCall /\ (~OnExpiryWeekday \/ ~AtOrAfterStart))
          => /\ last'.issued = <<>>
             /\ UNCHANGED <<holdings, history, session_iv_tracker,
                            expiry_trade_fired_today, straddle_executions>>]_vars

\* C10 witness: a call on the expiry weekday before the start time did nothing
\* although the rank was below the maximum and both legs were in the snapshot
C10_Witness ==
    /\ last.op = "execute_expiry_straddle_strategy" /\ last.outcome = "gate_closed"
    /\ OnExpiryWeekday /\ ~AtOrAfterStart
    /\ RankIsBelowMax
    /\ AtmLegRows("CE") # {} /\ AtmLegRows("PE") # {}
    /\ expiry_strategy_enabled

\* the session IV rank at the at-the-money row is max_iv_rank or more
RankIsAtLeastMax ==
    /\ index_name \in DOMAIN session_iv_tracker
    /\ SnapshotHasIv
    /\ LET t == session_iv_tracker[index_name]
       IN  IF t.high = t.low THEN 50 >= max_iv_rank
           ELSE (AtmRow.iv - t.low) * 100 >= max_iv_rank * (t.high - t.low)

\* C11: a call with the gate open and the session IV rank at or above
\* max_iv_rank makes no record_trade call, leaves holdings and history as they
\* were and leaves the guard unset for today, so that the gate is still open
\* for a later call on the same date.
C11_RankHighLeavesGuardUnset ==
    [][(IsStraddleCall /\ GateOpen /\ RankIsAtLeastMax)
       => /\ last'.issued = <<>>
          /\ UNCHANGED <<holdings, history, expiry_trade_fired_today>>
          /\ ~GuardSetToday']_vars

\* C11 witness: the straddle has just fired on a date on which an earlier call
\* had found the rank too high
C11_Witness ==
    /\ last.op = "execute_expiry_straddle_strategy" /\ last.outcome = "fired"
    /\ <<index_name, now.date>> \in straddle_declined
    /\ <<index_name, now.date>> \in straddle_executions
    /\ GuardSetToday
    /\ Len(last.issued) = 2

\* ============================================ claims on pricing and valuation
\* a step that is one call of analyze_and_trade_value by its direct caller, the
\* row it was given and the fair value black_scholes returned for it
IsAnalyzeCall == last'.op = "analyze_and_trade_value" /\ "option_data" \in DOMAIN last'
Analyzed == last'.option_data
FairValue == last'.priced.price
\* one BUY request for the analyzed row, at its market price
BuysAnalyzed ==
    /\ Len(last'.issued) = 1
    /\ last'.issued[1].symbol = Analyzed.symbol
    /\ last'.issued[1].trade_type = "BUY"
    /\ last'.issued[1].quantity = trade_quantity
    /\ last'.issued[1].price = Analyzed.ltp_y
    /\ history' = history \o CommittedRows(last'.issued)
NoTrade == last'.issued = <<>> /\ history' = history /\ holdings' = holdings

\* C12: for a row with positive market price, positive IV and positive fair
\* value, analyze_and_trade_value issues one BUY of trade_quantity at the
\* market price if (fairValue - marketPrice) / marketPrice * 100 is strictly
\* above trade_trigger_percentage, and issues nothing otherwise (equality does
\* not fire).
C12_ValueBuysAboveThreshold ==
    [][(/\ IsAnalyzeCall
        /\ Analyzed.ltp_y > 0 /\ Analyzed.iv > 0
        /\ ~last'.priced.raised /\ FairValue > 0)
       => IF (FairValue - Analyzed.ltp_y) * 100 > trade_trigger_percentage * Analyzed.ltp_y
          THEN BuysAnalyzed
          ELSE NoTrade]_vars

\* C12 witness: market 100, fair value 120: the BUY of trade_quantity at 100
\* is the newest history row
C12_Witness ==
    /\ last.op = "analyze_and_trade_value" /\ last.outcome = "buy"
    /\ last.option_data.ltp_y = 100 /\ last.priced.price = 120
    /\ last.issued[1].outcome = "committed"
    /\ Len(history) >= 1
    /\ history[Len(history)].symbol = last.option_data.symbol
    /\ history[Len(history)].price = 100
    /\ history[Len(history)].quantity = trade_quantity
    /\ history[Len(history)].reason.kind = "value"

\* C13: analyze_and_trade_value issues no trade and leaves the ledger as it
\* was for a row whose market price is <= 0, whose IV is <= 0, or whose fair
\* value is <= 0; the last covers every row that black_scholes rejects (a
\* suffix other than CE and PE, a negative underlying price) or finds expired.
C13_NoTradeWithoutValidData ==
    [][(/\ IsAnalyzeCall
        /\ \/ Analyzed.ltp_y <= 0
           \/ Analyzed.iv <= 0
           \/ (~last'.priced.raised /\ FairValue <= 0)
           \/ Analyzed.symbol[3] \notin {"CE", "PE"}
           \/ Analyzed.expiry < now.date)
       => NoTrade]_vars

\* C13 witness: an expired row with a positive market price and a positive IV
\* was priced at 0 and skipped, with a trade already in the history
C13_Witness ==
    /\ last.op = "analyze_and_trade_value" /\ last.outcome = "no_fair_value"
    /\ last.option_data.ltp_y > 0 /\ last.option_data.iv > 0
    /\ last.option_data.expiry < now.date
    /\ last.priced.price = 0
    /\ Len(history) >= 1

\* ============================================ claims on the session IV window
\* a step that is one whole call of update_session_iv on a snapshot with rows
IsObservation ==
    pc = "update_session_iv" /\ pc' # "stopped" /\ SnapshotHasIv
\* the symbol has been observed before on the date of this call
ObservedToday ==
    index_name \in DOMAIN iv_observed /\ iv_observed[index_name].date = now.date

\* C14 (as claimed): after update_session_iv has observed the at-the-money IVs
\* v1..vn of a symbol on one date, the symbol's window has high = max(v1..vn)
\* and low = min(v1..vn); between two observations of one date high does not
\* decrease and low does not increase.
C14_WindowIsMaxMinOfDay ==
    [][IsObservation
       => /\ index_name \in DOMAIN session_iv_tracker'
          /\ session_iv_tracker'[index_name].high = iv_observed'[index_name].high
          /\ session_iv_tracker'[index_name].low = iv_observed'[index_name].low
          /\ (ObservedToday /\ index_name \in DOMAIN session_iv_tracker
                => /\ session_iv_tracker'[index_name].high >= session_iv_tracker[index_name].high
                   /\ session_iv_tracker'[index_name].low <= session_iv_tracker[index_name].low)]_vars

\* C15 (as claimed): the first observation of a symbol on a new date sets high
\* and low to the IV observed, whatever was observed on earlier dates.
C15_WindowResetsWithDate ==
    [][(IsObservation /\ ~ObservedToday)
       => /\ index_name \in DOMAIN session_iv_tracker'
          /\ session_iv_tracker'[index_name].high = AtmRow.iv
          /\ session_iv_tracker'[index_name].low = AtmRow.iv]_vars

\* the rank the claim gives for the window and snapshot in hand, in hundredths
\* rounded as the reason string prints it
ClaimedRankHundredths ==
    LET t == session_iv_tracker[index_name]
    IN  IF t.high = t.low THEN 5000
        ELSE (2 * (AtmRow.iv - t.low) * 10000 + (t.high - t.low)) \div (2 * (t.high - t.low))

\* C16: with the weekday and time conditions met and the guard unset, a call
\* for a symbol without a window makes no trade and leaves the guard unset; a
\* call for a symbol with a window decides on the rank
\* (currentAtmIV - low) / (high - low) * 100, or 50 when high = low: it declines
\* exactly when that rank is max_iv_rank or more, and the reason of the trades
\* it makes cites that rank.
C16_RankFormula ==
    [][(IsStraddleCall /\ GateOpen)
       => IF index_name \notin DOMAIN session_iv_tracker
          THEN /\ last'.issued = <<>>
               /\ UNCHANGED <<holdings, history, expiry_trade_fired_today>>
          ELSE SnapshotHasIv
               => /\ (last'.outcome = "rank_high") = RankIsAtLeastMax
                  /\ \A i \in 1..Len(last'.issued) :
                        /\ last'.issued[i].reason.a = ClaimedRankHundredths
                        /\ last'.issued[i].reason.b = max_iv_rank * 100]_vars

\* C16 witness: with the window at low 10, high 20 and an at-the-money IV of
\* 11 the straddle has fired citing rank 10.00
C16_Witness ==
    /\ last.op = "execute_expiry_straddle_strategy" /\ last.outcome = "fired"
    /\ session_iv_tracker[index_name] = [high |-> 20, low |-> 10]
    /\ AtmRow.iv = 11
    /\ last.issued[1].reason.a = 1000

\* C16, the absent case: a call with the weekday and time conditions met found
\* no window and did nothing
C16_AbsentReached ==
    /\ last.op = "execute_expiry_straddle_strategy" /\ last.outcome = "no_tracker"
    /\ OnExpiryWeekday /\ AtOrAfterStart

\* ================================================== claims on black_scholes
\* the latest operation is a direct call of black_scholes
IsPriced == last.op = "black_scholes" /\ "args" \in DOMAIN last
\* the call's inputs pass the validation and the option has not expired
PassesValidation ==
    /\ last.args.option_type \in {"CE", "PE"}
    /\ last.args.S >= 0 /\ last.args.K >= 0 /\ last.args.r >= 0 /\ last.args.sigma >= 0
    /\ last.args.days_to_expiry >= 0

\* C17: black_scholes returns 0 and raises nothing when option_type is neither
\* CE nor PE, or one of S, K, r, sigma is negative, or the expiry date is before
\* today, whatever the other inputs are; for an option that has not expired
\* the time to expiry is (daysToExpiry + 1) / 365 and is positive.
C17_RejectsInvalidInput ==
    IsPriced
    => /\ (~PassesValidation => last.outcome = "returned" /\ last.price = 0)
       /\ (last.args.days_to_expiry >= 0
             => /\ last.T.den > 0 /\ last.T.num > 0
                /\ last.T.num * 365 = (last.args.days_to_expiry + 1) * last.T.den)

\* C17 witness: an expired call option whose other inputs would have been
\* priced, and whose volatility would have overflowed, came back as 0
C17_Witness ==
    /\ IsPriced
    /\ last.args.option_type = "CE" /\ last.args.S = 100 /\ last.args.K = 100
    /\ last.args.r = 7 /\ last.args.sigma = HugeSigma
    /\ last.args.days_to_expiry < 0
    /\ last.outcome = "returned" /\ last.price = 0

\* C18 (as claimed): for inputs that pass validation black_scholes always
\* returns, never raises, and returns 0 when sigma = 0, K = 0 or S = 0.
C18_FaultsYieldZero ==
    (IsPriced /\ PassesValidation)
    => /\ last.outcome = "returned"
       /\ (last.args.sigma = 0 \/ last.args.K = 0 \/ last.args.S = 0 => last.price = 0)

\* ================================================== claims on the cycle loop
\* C19 (as claimed): the loop of run is left only on a shutdown signal: an
\* exception that escapes a cycle does not end it.
C19_LoopSurvivesErrors ==
    [][(pc # "stopped" /\ pc' = "stopped") => last'.outcome = "keyboard_interrupt"]_vars

\* C20 (as claimed): data is fetched and strategies are evaluated only on
\* Monday to Friday (weekday() <= 4).
C20_NoCycleWhileMarketClosed ==
    pc \in {"process_index", "update_session_iv", "value", "straddle"}
    => Weekday(now.date) <= 4

\* ------------------------------------------------ claims about process_index
\* a step of process_index in which one of the three fetches gave nothing
IsFailedFetch ==
    /\ pc = "process_index"
    /\ last'.op = "process_index"
    /\ "fetched" \in DOMAIN last'
    /\ \/ last'.fetched.ltp = 0
       \/ last'.fetched.option_chain = 0
       \/ last'.fetched.greeks_data = 0

\* C21: when the LTP fetch returns None, or the option chain is empty, or the
\* greeks fetch returns None or nothing, the symbol is skipped for the cycle:
\* its IV window and fired guard are unchanged, no trade is recorded, and the
\* loop goes to the inter-symbol sleep and from there to the next watched
\* symbol (unless the process is interrupted)
C21_FailedFetchSkipsSymbol ==
    /\ [][IsFailedFetch =>
            /\ session_iv_tracker' = session_iv_tracker
            /\ expiry_trade_fired_today' = expiry_trade_fired_today
            /\ history' = history /\ holdings' = holdings
            /\ last'.issued = <<>>
            /\ idx' = idx
            /\ pc' = "symbol_sleep"]_vars
    /\ [][(pc = "symbol_sleep" /\ pc' \notin {"symbol_sleep", "stopped"}) =>
            /\ pc' = "for" /\ idx' = idx + 1
            /\ session_iv_tracker' = session_iv_tracker
            /\ expiry_trade_fired_today' = expiry_trade_fired_today
            /\ history' = history /\ holdings' = holdings]_vars

\* the greeks fetch fails for a symbol that has a window and a trade from an
\* earlier cycle
C21_Witness ==
    /\ pc = "symbol_sleep"
    /\ last.op = "process_index"
    /\ last.fetched.ltp = 1 /\ last.fetched.option_chain = 4 /\ last.fetched.greeks_data = 0
    /\ "NIFTY" \in DOMAIN session_iv_tracker
    /\ history # <<>>

\* ------------------------------------------------------ claims about run
\* C22: in every cycle the inter-symbol delay is executed after each watched
\* symbol, whatever the outcome for it (processed, skipped on a failed fetch,
\* skipped as not defined in symbol_details), and the run interval delay is
\* executed once between the end of a cycle and the start of the next
C22_DelayAfterEverySymbol ==
    /\ [][(pc # "stopped" /\ pc' # "stopped" /\ idx' = idx + 1) =>
            (pc = "symbol_sleep" /\ last'.outcome = "symbol_sleep")]_vars
    /\ [][(cycles > 0 /\ cycles' = cycles + 1) => last.outcome = "cycle_sleep"]_vars

\* the part of C22 that holds: a symbol defined in symbol_details is followed
\* by the inter-symbol delay, and cycles are separated by the run interval delay
C22_DelayAfterDefinedSymbol ==
    /\ [][(pc # "stopped" /\ pc' # "stopped" /\ idx' = idx + 1
            /\ symbols_to_watch[idx] \in symbol_details) =>
            (pc = "symbol_sleep" /\ last'.outcome = "symbol_sleep")]_vars
    /\ [][(cycles > 0 /\ cycles' = cycles + 1) => last.outcome = "cycle_sleep"]_vars

\* ------------------------------------------- claims about exceptions in a strategy
\* the row in hand makes the evaluation raise: it has no IV, or its fields pass
\* the checks of analyze_and_trade_value and of black_scholes and its IV is
\* beyond the floats whose square is finite
RowRaises ==
    LET option == df_merged[opt_i]
    IN  \/ "iv" \notin DOMAIN option
        \/ /\ "iv" \in DOMAIN option
           /\ option.ltp_y > 0
           /\ option.symbol[3] \in {"CE", "PE"}
           /\ option.expiry >= now.date
           /\ option.strike > 0 /\ underlying_ltp > 0
           /\ option.iv >= HugeSigma
\* the straddle call in hand raises: the gate is open, the symbol has a window,
\* and the snapshot is empty or has no IV, or the rank is below the maximum and
\* the snapshot lacks a leg of the at-the-money strike
StraddleRaises ==
    /\ GateOpen
    /\ index_name \in DOMAIN session_iv_tracker
    /\ \/ Len(df_merged) = 0
       \/ ~SnapshotHasIv
       \/ RankIsBelowMax /\ (AtmLegRows("CE") = {} \/ AtmLegRows("PE") = {})

\* C23: an exception raised while the value strategy evaluates one option, or
\* while the straddle strategy is evaluated for one symbol, is caught inside
\* that evaluation: the loop goes on to the next option of the snapshot (after
\* the last one, to the straddle or the inter-symbol sleep), and after the
\* straddle to the inter-symbol sleep and the next symbol of the cycle
C23_StrategyExceptionIsContained ==
    /\ [][(pc = "value" /\ last'.op = "analyze_and_trade_value" /\ RowRaises) =>
            /\ last'.issued = <<>>
            /\ opt_i' = opt_i + 1 /\ df_merged' = df_merged /\ idx' = idx
            /\ pc' = IF opt_i < Len(df_merged) THEN "value"
                     ELSE IF expiry_strategy_enabled THEN "straddle" ELSE "symbol_sleep"]_vars
    /\ [][(pc = "straddle" /\ last'.op = "execute_expiry_straddle_strategy"
            /\ StraddleRaises) =>
            /\ last'.issued = <<>>
            /\ idx' = idx
            /\ pc' = "symbol_sleep"]_vars
    /\ [][(pc = "symbol_sleep" /\ pc' = "for") => idx' = idx + 1]_vars

\* the third of four rows has raised and the fourth is about to be evaluated
C23_Witness ==
    /\ pc = "value"
    /\ last.op = "analyze_and_trade_value"
    /\ opt_i = 4 /\ Len(df_merged) = 4
    /\ df_merged[3].iv >= HugeSigma /\ df_merged[3].ltp_y > 0

\* a straddle call has raised on a missing leg and the loop is at the
\* inter-symbol sleep
C23_StraddleRaisedReached ==
    /\ pc = "symbol_sleep"
    /\ last.op = "execute_expiry_straddle_strategy" /\ last.outcome = "error"
    /\ Len(df_merged) > 0

\* ------------------------------------- claims about the order inside process_index
\* C24: whenever process_index is about to evaluate the straddle strategy for
\* a symbol, the value strategy has been run over every row of the snapshot,
\* and update_session_iv has recorded this cycle's at-the-money IV in the
\* symbol's window: the window exists, holds an observation of today and
\* contains the at-the-money IV of the snapshot in hand
C24_WindowAndValueBeforeStraddle ==
    pc = "straddle" =>
        /\ opt_i = Len(df_merged) + 1
        /\ last.op = IF Len(df_merged) = 0 THEN "update_session_iv"
                     ELSE "analyze_and_trade_value"
        /\ SnapshotHasIv =>
              /\ index_name \in DOMAIN session_iv_tracker
              /\ session_iv_tracker[index_name].low <= AtmRow.iv
              /\ AtmRow.iv <= session_iv_tracker[index_name].high
              /\ index_name \in DOMAIN iv_observed
              /\ iv_observed[index_name].date = now.date

\* the straddle is about to compute a rank over a window that this cycle's IV
\* has widened
C24_Witness ==
    /\ pc = "straddle"
    /\ GateOpen
    /\ SnapshotHasIv
    /\ index_name \in DOMAIN session_iv_tracker
    /\ session_iv_tracker[index_name].low < session_iv_tracker[index_name].high
    /\ AtmRow.iv = session_iv_tracker[index_name].low

\* ------------------------------------------------- claims about the shutdown
\* a KeyboardInterrupt has ended a record_trade call
IsInterruptedRecordTrade == last'.op = "record_trade" /\ "before" \in DOMAIN last'

\* C25: if a KeyboardInterrupt arrives at any point during a record_trade call,
\* the ledger that persists after the exit is either the ledger from before the
\* call, or the complete result of the trade: the history row appended and the
\* holding of the symbol raised by the quantity, every other holding as it was
C25_InterruptedTradeIsAtomic ==
    /\ [][IsInterruptedRecordTrade =>
            LET before == last'.before
                request == last'.issued[1]
            IN  /\ pc' = "stopped"
                /\ \/ history' = before.history /\ holdings' = before.holdings
                   \/ /\ history' = Append(before.history,
                                            [symbol |-> request.symbol, trade_type |-> "BUY",
                                             quantity |-> request.quantity,
                                             price |-> request.price, reason |-> request.reason])
                      /\ request.symbol \in DOMAIN holdings'
                      /\ holdings'[request.symbol].quantity
                           = HeldQuantity(before.holdings, request.symbol) + request.quantity
                      /\ \A s \in (DOMAIN holdings' \cup DOMAIN before.holdings) \ {request.symbol} :
                           /\ s \in DOMAIN holdings' /\ s \in DOMAIN before.holdings
                           /\ holdings'[s] = before.holdings[s]]_vars
    /\ [][pc = "stopped" => history' = history /\ holdings' = holdings]_vars

\* the interrupt arrived in the put leg of a straddle after the holdings had
\* been changed in the session: the call leg is stored, the put leg is not
C25_Witness ==
    /\ pc = "stopped"
    /\ last.op = "record_trade" /\ last.at = "updated"
    /\ last.issued[1].symbol[3] = "PE"
    /\ Len(history) >= 1
    /\ history = last.before.history /\ holdings = last.before.holdings
    /\ history[Len(history)].symbol[3] = "CE"

\* the interrupt arrived after the commit and the trade is stored in full
C25_CommittedReached ==
    /\ pc = "stopped"
    /\ last.op = "record_trade" /\ last.at = "committed"
    /\ Len(history) = Len(last.before.history) + 1

\* --------------------------------------- claims about the at-the-money row
\* how far the strike of row i lies from the LTP
StrikeDistance(i) == Abs(df_merged[i].strike \div 100 - underlying_ltp)

\* C26: the at-the-money row that update_session_iv and
\* execute_expiry_straddle_strategy work on is a row whose strike is at the
\* least absolute difference from the LTP over the whole snapshot, and of the
\* rows at that least difference it is the first in snapshot order
C26_AtmIsFirstNearestRow ==
    (pc \in {"update_session_iv", "value", "straddle"} /\ Len(df_merged) > 0) =>
        /\ atm_i \in 1..Len(df_merged)
        /\ \A j \in 1..Len(df_merged) : StrikeDistance(atm_i) <= StrikeDistance(j)
        /\ \A j \in 1..(atm_i - 1) : StrikeDistance(j) > StrikeDistance(atm_i)

\* the part of C26 that holds: the row is at the least difference from the LTP
C26_AtmIsNearestRow ==
    (pc \in {"update_session_iv", "value", "straddle"} /\ Len(df_merged) > 0) =>
        /\ atm_i \in 1..Len(df_merged)
        /\ \A j \in 1..Len(df_merged) : StrikeDistance(atm_i) <= StrikeDistance(j)

\* ------------------------------------------ claims about the engine's trades
\* C27: every record_trade call the engine's strategies make has side BUY, so
\* over any run of cycles every history row is a BUY, no holding row is
\* removed and no held quantity decreases
C27_EngineOnlyBuys ==
    /\ [][\A i \in 1..Len(last'.issued) : last'.issued[i].trade_type = "BUY"]_vars
    /\ [](\A i \in 1..Len(history) : history[i].trade_type = "BUY")
    /\ [][\A s \in DOMAIN holdings :
            /\ s \in DOMAIN holdings'
            /\ holdings'[s].quantity >= holdings[s].quantity]_vars

\* the value strategy has bought a symbol for the second time: its holding has
\* grown to twice trade_quantity
C27_Witness ==
    /\ last.op = "analyze_and_trade_value"
    /\ Len(last.issued) = 1 /\ last.issued[1].outcome = "committed"
    /\ last.issued[1].symbol \in DOMAIN holdings
    /\ holdings[last.issued[1].symbol].quantity = 2 * trade_quantity
    /\ Len(history) >= 2

\* ------------------------------------ claims about holdings against history
\* the BUY quantities minus the SELL quantities of a symbol's history rows
RECURSIVE NetQuantity(_, _)
NetQuantity(hist, symbol) ==
    IF hist = <<>> THEN 0
    ELSE LET row == hist[Len(hist)]
             signed == IF row.symbol # symbol THEN 0
                       ELSE IF row.trade_type = "BUY" THEN row.quantity
                       ELSE IF row.trade_type = "SELL" THEN 0 - row.quantity
                       ELSE 0
         IN  NetQuantity(SubSeq(hist, 1, Len(hist) - 1), symbol) + signed

\* C28: after any sequence of record_trade calls, for every symbol the held
\* quantity equals the sum of the BUY quantities minus the sum of the SELL
\* quantities of the symbol's history rows, and the symbol has no holdings row
\* exactly when that net quantity is 0
C28_HoldingsAgreeWithHistory ==
    \A s \in CallSymbols \cup DOMAIN holdings :
        /\ HeldQuantity(holdings, s) = NetQuantity(history, s)
        /\ (s \notin DOMAIN holdings) <=> (NetQuantity(history, s) = 0)

\* the part of C28 that holds: the held quantity is the net quantity of the
\* history rows
C28_HeldQuantityIsNet ==
    \A s \in CallSymbols \cup DOMAIN holdings :
        HeldQuantity(holdings, s) = NetQuantity(history, s)

\* ------------------------------------------- claims about the straddle's legs
\* a call of execute_expiry_straddle_strategy that ran to its end
IsStraddleInvocation == pc = "straddle" /\ last'.op = "execute_expiry_straddle_strategy"
\* the history rows the call committed
LegsCommitted == Len(history') - Len(history)
\* the call set the guard of the symbol to today
GuardNewlySet ==
    /\ ~GuardSetToday
    /\ symbols_to_watch[idx] \in DOMAIN expiry_trade_fired_today'
    /\ expiry_trade_fired_today'[symbols_to_watch[idx]] = now.date

\* C29: one invocation of execute_expiry_straddle_strategy commits both legs
\* (the CE BUY and the PE BUY) or neither, and it sets the fired guard for the
\* date if and only if both legs were committed, also when a leg is missing
\* from the snapshot or record_trade fails internally for one leg
C29_BothLegsOrNeither ==
    [][IsStraddleInvocation =>
        /\ LegsCommitted \in {0, 2}
        /\ GuardNewlySet <=> (LegsCommitted = 2)]_vars

\* the part of C29 that holds: a call in which no record_trade call met a
\* storage error commits both legs and sets the guard, or commits no leg and
\* leaves the guard as it was
C29_BothLegsWhenStorageWorks ==
    [][(IsStraddleInvocation
        /\ \A i \in 1..Len(last'.issued) : last'.issued[i].outcome = "committed") =>
        /\ LegsCommitted \in {0, 2}
        /\ GuardNewlySet <=> (LegsCommitted = 2)]_vars

\* the straddle call in hand gets as far as computing a rank: the guard is not
\* set for today, the weekday and time conditions are met, the symbol has a
\* window, and the snapshot has an at-the-money row with an IV
RankIsComputed ==
    /\ pc = "straddle" /\ last'.op \in {"execute_expiry_straddle_strategy", "record_trade"}
    /\ GateOpen
    /\ index_name \in DOMAIN session_iv_tracker
    /\ SnapshotHasIv

\* C30: whenever the straddle computes a rank, the at-the-money IV it reads lies
\* within the window's low and high, so the rank lies between 0 and 100 and a
\* cited rank between 0.00 and 100.00; a call that declines on the rank or
\* fires has computed one; and in a cycle whose update_session_iv ended in a
\* caught error the straddle computes no rank and places nothing
C30_RankWithinWindow ==
    /\ [][RankIsComputed =>
            LET w == session_iv_tracker[index_name]
                rank == SessionIvRank(AtmRow.iv, w.high, w.low)
            IN  /\ w.low <= AtmRow.iv /\ AtmRow.iv <= w.high
                /\ 0 <= rank.num /\ rank.num <= 100 * rank.den
                /\ \A i \in 1..Len(last'.issued) :
                      last'.issued[i].reason.a \in 0..10000]_vars
    /\ [][(pc = "straddle" /\ last'.op = "execute_expiry_straddle_strategy"
           /\ last'.outcome \in {"rank_high", "fired"}) => RankIsComputed]_vars
    /\ [][(pc = "straddle" /\ Len(df_merged) > 0 /\ ~SnapshotHasIv) =>
            /\ last'.outcome \notin {"rank_high", "fired"}
            /\ last'.issued = <<>>
            /\ UNCHANGED <<holdings, history>>]_vars

\* C30 witness: a straddle call has declined on a rank of exactly 100, the
\* at-the-money IV being the high of a window that an earlier cycle opened lower
C30_Witness ==
    /\ last.op = "execute_expiry_straddle_strategy" /\ last.outcome = "rank_high"
    /\ SnapshotHasIv
    /\ session_iv_tracker[index_name].low < session_iv_tracker[index_name].high
    /\ AtmRow.iv = session_iv_tracker[index_name].high

\* C30, the error case: in a cycle whose snapshot has no IV, so that
\* update_session_iv ended in a caught error, the straddle was called with the
\* weekday and time conditions met and a window in place, and ended in a caught
\* error too
C30_ErrorCycleReached ==
    /\ last.op = "execute_expiry_straddle_strategy" /\ last.outcome = "error"
    /\ Len(df_merged) > 0 /\ ~SnapshotHasIv
    /\ index_name \in DOMAIN session_iv_tracker
    /\ OnExpiryWeekday /\ AtOrAfterStart
====
